---- MODULE Spec2Model ----
(***************************************************************************)
(* Model of the card badge compositor (card_downloader.py,                 *)
(* YugiohCardDownloader.add_points_overlay / get_font) and of the alias    *)
(* re-application loop (apply_alias_overlay.py, AliasOverlayProcessor).    *)
(*                                                                         *)
(* Image bytes are modelled by what the decoder sees in them: the pixel    *)
(* size, the step of the compositor the bytes make fail (if any), and the  *)
(* badges burnt into the pixels so far.  font_scale is a rational          *)
(* <<numerator, denominator>>.  The imaging library is modelled by the     *)
(* behaviour the compositor depends on: thumbnail's size computation, the  *)
(* font that can be loaded, the text extents it reports.                   *)
(***************************************************************************)
EXTENDS Integers, Sequences, FiniteSets, TLC

VARIABLES
    env,              \* fonts and library the process runs with
    pc,               \* "idle" / "returned": a direct call of add_points_overlay
    call,             \* the locals and the result of that call
    cards_data,       \* AliasOverlayProcessor.cards_data: code -> card record
    alias_data,       \* AliasOverlayProcessor.alias_data, in iteration order
    same_dir,         \* output_dir is images_dir
    disk,             \* the files <code>.jpg of images_dir and of output_dir
    apc,              \* process_all_aliases: "off", "loop", "done"
    entry,            \* index in alias_data of the original being handled
    pos,              \* index in its alias_list of the alias handled next
    total_processed,
    total_skipped,
    total_errors,
    log,              \* history: what was done with each alias, in order
    cards,            \* download_all_cards: the records of cards.json, in order
    dpc,              \* download_all_cards: "off", "start", "loop", "done", "aborted"
    card_index,       \* i of the record handled next
    successful_downloads,
    failed_downloads,
    output,           \* the files <code>.jpg the downloader wrote to output_dir
    handled           \* history: what was done with each record, in order

overlayVars == <<pc, call>>

aliasVars ==
    <<cards_data, alias_data, same_dir, disk, apc, entry, pos,
      total_processed, total_skipped, total_errors, log>>

downloadVars ==
    <<cards, dpc, card_index, successful_downloads, failed_downloads, output, handled>>

vars == <<env, overlayVars, aliasVars, downloadVars>>

----------------------------------------------------------------------------
(* Program constants of add_points_overlay.                                *)

max_width == 316
max_height == 461
min_font_size == 80
fallback_font_size == 60
padding == 10
extra_bottom == 10
rect_padding_horizontal == 12
rect_padding_vertical == 8
red_threshold == 50
orange_threshold == 20
yellow_threshold == 10
text_inset == 2

(* Bounds of the model.                                                    *)

MaxPoints == 104
MaxNegPoints == 11
GlyphAdvanceTenths == 6
GlyphHeightTenths == 7
DefaultFontSize == 10

----------------------------------------------------------------------------
(* Arithmetic helpers.                                                     *)

Min(a, b) == IF a <= b THEN a ELSE b
Max(a, b) == IF a >= b THEN a ELSE b
Abs(a) == IF a >= 0 THEN a ELSE -a

(* Python int(n / d) for d > 0: truncation toward zero.                    *)
Trunc(n, d) == IF n >= 0 THEN n \div d ELSE -((-n) \div d)

(* ceil(n / d) for n >= 0, d > 0.                                          *)
CeilDiv(n, d) == (n + d - 1) \div d

RECURSIVE Digits(_)
Digits(n) == IF n < 10 THEN 1 ELSE 1 + Digits(n \div 10)

(* len(str(points)): the decimal digits, and the sign of a negative value. *)
StrLen(points) == IF points < 0 THEN 1 + Digits(-points) ELSE Digits(points)

----------------------------------------------------------------------------
(* Inputs.                                                                 *)

(* What the bytes make fail: nothing; Image.open ("decode": no image);     *)
(* reading the pixel data ("load": a truncated file, whose header opens);  *)
(* the conversion to RGBA ("convert": a mode that cannot be converted);    *)
(* the paste onto the white canvas ("flatten"); the JPEG encoder           *)
(* ("encode").                                                             *)
FailKinds == {"none", "decode", "load", "convert", "flatten", "encode"}

NoBadges == <<>>

ImageBytes(w, h, fail) == [w |-> w, h |-> h, fail |-> fail, badges |-> NoBadges]

(* Bytes that are no image at all.                                         *)
NotAnImage == ImageBytes(0, 0, "decode")

(* The sizes of the sound images tried, the usual card sizes first.        *)
CardDims == << <<400, 600>>, <<200, 200>>, <<316, 461>> >>

OtherDims ==
    << <<316, 400>>, <<300, 461>>, <<317, 461>>, <<316, 462>>, <<632, 922>>,
       <<1000, 300>>, <<2000, 2000>>, <<100, 50>>, <<40, 12>>, <<30, 11>>,
       <<50, 8>>, <<1, 1>>, <<10000, 100>>, <<100, 10000>>, <<1, 10000>> >>

SoundImages(dims) == [k \in 1..Len(dims) |-> ImageBytes(dims[k][1], dims[k][2], "none")]

(* The images whose bytes make a later step fail.                          *)
FailingImages ==
    << ImageBytes(400, 600, "encode"), ImageBytes(400, 600, "load"),
       ImageBytes(400, 600, "convert"), ImageBytes(400, 600, "flatten"),
       ImageBytes(200, 200, "encode"), ImageBytes(200, 200, "load"),
       ImageBytes(200, 200, "convert"), ImageBytes(200, 200, "flatten") >>

Images ==
    SoundImages(CardDims) \o FailingImages \o SoundImages(OtherDims) \o <<NotAnImage>>

PointValues == (0 - MaxNegPoints) .. MaxPoints

Half == <<1, 2>>
One == <<1, 1>>

(* 1/100 is a positive scale small enough to truncate the font size to 0.  *)
Scales == { Half, One, <<3, 2>>, <<1, 100>> }

(* The environment a call runs in: the best font the machine can load      *)
(* ("truetype": a file of font_paths loads; "default": only the library's  *)
(* built-in font loads; "bitmap": the built-in font loads and is one that  *)
(* textbbox refuses to measure; "absent": not even the built-in font       *)
(* loads),                                                                 *)
(* and whether the installed library rejects degenerate arguments (a font  *)
(* size <= 0, a rectangle whose second corner precedes its first) with a   *)
(* ValueError.                                                             *)
Environments == [fonts : {"truetype", "default", "bitmap", "absent"}, strict : BOOLEAN]

----------------------------------------------------------------------------
(* Step 1: the resize guard and Image.thumbnail's size computation.        *)

(* Mutants of the resize guard: both axes must exceed the cap; the cap     *)
(* itself already counts as too large.                                     *)
NeedsResize_both(w, h) == w > max_width /\ h > max_height
NeedsResize_ge(w, h) == w >= max_width \/ h >= max_height

NeedsResize(w, h) == w > max_width \/ h > max_height

(* round_aspect(number, key) = max(min(floor, ceil, key = key), 1): of the *)
(* two integers around the exact scaled dimension, the one whose aspect    *)
(* ratio is nearer the source's (the floor on a tie), at least 1.          *)
RoundAspect(fl, ce, keyFl, keyCe) == Max(IF keyFl <= keyCe THEN fl ELSE ce, 1)

Thumbnail(w, h) ==
    LET x == max_width
        y == max_height
    IN  IF x >= w /\ y >= h THEN <<w, h>>
        ELSE IF x * h >= y * w
        THEN \* x / y >= aspect: the height keeps the cap, the width follows
             LET fl == (y * w) \div h
                 ce == CeilDiv(y * w, h)
             IN  <<RoundAspect(fl, ce, Abs(w * y - fl * h), Abs(w * y - ce * h)), y>>
        ELSE \* the width keeps the cap, the height follows
             LET fl == (x * h) \div w
                 ce == CeilDiv(x * h, w)
                 keyFl == IF fl = 0 THEN 0 ELSE Abs(w * fl - x * h) * ce
                 keyCe == Abs(w * ce - x * h) * fl
             IN  <<x, RoundAspect(fl, ce, keyFl, keyCe)>>

(* Mutant: the font is sized on the image as it was decoded.               *)
WorkingSize_unresized(w, h) == <<w, h>>

WorkingSize(w, h) == IF NeedsResize(w, h) THEN Thumbnail(w, h) ELSE <<w, h>>

----------------------------------------------------------------------------
(* Step 2: the font size and get_font.                                     *)

(* Mutant: the scale applied before the 80 minimum.                        *)
FontSize_scaleFirst(img_width, img_height, scale) ==
    Max(Trunc((Min(img_width, img_height) \div 4) * scale[1], scale[2]), min_font_size)

(* int(max(min(img_width, img_height) // 4, 80) * font_scale)              *)
FontSize(img_width, img_height, scale) ==
    LET base_font_size == Min(img_width, img_height) \div 4
        font_size == Max(base_font_size, min_font_size)
    IN  Trunc(font_size * scale[1], scale[2])

(* ImageFont.truetype(font_path, size) for one path of font_paths: a font, *)
(* an OSError (no such file, or a size the rasteriser refuses), or the     *)
(* ValueError a strict library raises for a size <= 0 before it opens the  *)
(* file.                                                                   *)
TrueType(size, e) ==
    IF size <= 0 THEN (IF e.strict THEN "ValueError" ELSE "OSError")
    ELSE IF e.fonts = "truetype" THEN "truetype" ELSE "OSError"

(* ImageFont.load_default()                                                *)
LoadDefault(e) ==
    IF e.fonts = "absent" THEN "error"
    ELSE IF e.fonts = "bitmap" THEN "bitmap" ELSE "default"

(* Mutant: a font handle kept on the instance that only the first call of  *)
(* a run can use; later calls get no font.                                 *)
GetFont_firstCallOnly(size, e) ==
    IF log # <<>> THEN "none"
    ELSE LET loaded == TrueType(size, e)
         IN  IF loaded = "truetype" THEN "truetype"
             ELSE IF loaded = "ValueError" THEN "raise"
             ELSE IF LoadDefault(e) # "error" THEN LoadDefault(e) ELSE "none"

(* Mutant: get_font without the load_default fallback.                     *)
GetFont_noDefault(size, e) ==
    LET loaded == TrueType(size, e)
    IN  IF loaded = "truetype" THEN "truetype"
        ELSE IF loaded = "ValueError" THEN "raise"
        ELSE "none"

(* get_font: the first path that loads; an OSError moves on to the next    *)
(* path, any other exception leaves get_font; after the paths the default  *)
(* font, and None ("none") when that raises too.                           *)
GetFont(size, e) ==
    LET loaded == TrueType(size, e)
    IN  IF loaded = "truetype" THEN "truetype"
        ELSE IF loaded = "ValueError" THEN "raise"
        ELSE IF LoadDefault(e) # "error" THEN LoadDefault(e) ELSE "none"

----------------------------------------------------------------------------
(* Step 3: text extents.                                                   *)

(* draw.textbbox((0, 0), text, font = font): <<bbox[2] - bbox[0],          *)
(* bbox[3] - bbox[1]>>.  The extents grow with the size the font was       *)
(* loaded at; the built-in font has one size whatever was asked for.       *)
TextBBox(font, size, len) ==
    LET s == IF font = "truetype" THEN size ELSE DefaultFontSize
    IN  <<len * ((s * GlyphAdvanceTenths) \div 10), (s * GlyphHeightTenths) \div 10>>

(* <<text_width, text_height>>: measured and inflated by 20% with a font,  *)
(* estimated from font_size without one.                                   *)
TextSize(font, font_size, len) ==
    IF font # "none"
    THEN LET bbox == TextBBox(font, font_size, len)
         IN  <<bbox[1], (bbox[2] * 12) \div 10>>
    ELSE <<(len * font_size * 6) \div 10, (font_size * 11) \div 10>>

----------------------------------------------------------------------------
(* Steps 4 and 5: anchor and badge rectangle.                              *)

AnchorX == padding
AnchorY(img_height, text_height) == img_height - text_height - padding - extra_bottom

BadgeRect(img_width, img_height, text_width, text_height) ==
    LET x == AnchorX
        y == AnchorY(img_height, text_height)
        rect_x1 == x - rect_padding_horizontal
        rect_y1 == y - rect_padding_vertical
        rect_x2 == x + text_width + rect_padding_horizontal
        rect_y2 == y + text_height + rect_padding_vertical
    IN  [x1 |-> Max(0, rect_x1), y1 |-> Max(0, rect_y1),
         x2 |-> Min(img_width, rect_x2), y2 |-> Min(img_height, rect_y2)]

----------------------------------------------------------------------------
(* Step 6: colours.                                                        *)

Red == <<255, 0, 0, 200>>
Orange == <<255, 165, 0, 200>>
Yellow == <<255, 255, 0, 200>>
Green == <<0, 255, 0, 200>>
White == <<255, 255, 255>>
Black == <<0, 0, 0>>

(* Mutant: strict comparisons, the boundary values fall a bucket lower.     *)
ChooseColors_strict(points) ==
    IF points > red_threshold THEN [bg_color |-> Red, text_color |-> White]
    ELSE IF points > orange_threshold THEN [bg_color |-> Orange, text_color |-> Black]
    ELSE IF points > yellow_threshold THEN [bg_color |-> Yellow, text_color |-> Black]
    ELSE [bg_color |-> Green, text_color |-> Black]

ChooseColors(points) ==
    IF points >= red_threshold THEN [bg_color |-> Red, text_color |-> White]
    ELSE IF points >= orange_threshold THEN [bg_color |-> Orange, text_color |-> Black]
    ELSE IF points >= yellow_threshold THEN [bg_color |-> Yellow, text_color |-> Black]
    ELSE [bg_color |-> Green, text_color |-> Black]

----------------------------------------------------------------------------
(* Step 7: where the text is drawn.                                        *)

(* Mutant: the centre position without the "within bounds" clamp.          *)
TextPosition_unclamped(rect, text_width, text_height) ==
    [text_x |-> rect.x1 + (rect.x2 - rect.x1 - text_width) \div 2,
     text_y |-> rect.y1 + (rect.y2 - rect.y1 - text_height) \div 2]

TextPosition(rect, text_width, text_height) ==
    LET text_x == rect.x1 + (rect.x2 - rect.x1 - text_width) \div 2
        text_y == rect.y1 + (rect.y2 - rect.y1 - text_height) \div 2
    IN  [text_x |-> Max(rect.x1 + text_inset, text_x),
         text_y |-> Max(rect.y1 + text_inset, text_y)]

----------------------------------------------------------------------------
(* add_points_overlay.                                                     *)

Inverted(rect) == rect.x2 < rect.x1 \/ rect.y2 < rect.y1

(* The first statement of the try block that raises, "none" when none      *)
(* does.                                                                   *)
FirstFailure(img, resized, font, rect, e) ==
    IF img.fail = "decode" THEN "decode"                        \* Image.open
    ELSE IF resized /\ img.fail = "load" THEN "resize"          \* image.thumbnail
    ELSE IF img.fail = "load" THEN "context"                    \* ImageDraw.Draw(image)
    ELSE IF font = "raise" THEN "font"                          \* self.get_font
    ELSE IF font = "bitmap" THEN "measure"                      \* draw.textbbox
    ELSE IF e.strict /\ Inverted(rect) THEN "rectangle"         \* overlay_draw.rectangle
    ELSE IF img.fail = "convert" THEN "composite"               \* convert, alpha_composite
    ELSE IF font = "none" /\ LoadDefault(e) = "error" THEN "text"  \* draw.text, no font
    ELSE IF img.fail = "flatten" THEN "flatten"                 \* rgb_image.paste
    ELSE IF img.fail = "encode" THEN "encode"                   \* image.save
    ELSE "none"

(* Mutant: a guard that catches the decoder's errors only.                 *)
Caught_decodeOnly(step) == step = "decode"

(* except Exception: every failure of the try block is caught.             *)
Caught(step) == TRUE

(* The statements of the try block in the order they run.                  *)
StepOrder ==
    <<"decode", "resize", "context", "font", "measure", "rectangle",
      "composite", "text", "flatten", "encode", "none">>

StepIndex(step) == CHOOSE i \in 1..Len(StepOrder) : StepOrder[i] = step

(* The call ran past `step`: it failed later or not at all.                *)
Passed(failed, step) == StepIndex(failed) > StepIndex(step)

(* The whole call: its locals, the statement that failed, what it returns. *)
Overlay(img, points, scale, e) ==
    LET resized == img.fail # "decode" /\ NeedsResize(img.w, img.h)
        size == WorkingSize(img.w, img.h)
        img_width == size[1]
        img_height == size[2]
        requested == FontSize(img_width, img_height, scale)
        font == GetFont(requested, e)
        font_size == IF font = "none" THEN fallback_font_size ELSE requested
        tsize == TextSize(font, font_size, StrLen(points))
        rect == BadgeRect(img_width, img_height, tsize[1], tsize[2])
        colors == ChooseColors(points)
        tpos == TextPosition(rect, tsize[1], tsize[2])
        failed == FirstFailure(img, resized, font, rect, e)
        badge == [text |-> points, font |-> font, font_size |-> font_size,
                  rect |-> rect, bg_color |-> colors.bg_color,
                  text_color |-> colors.text_color,
                  text_x |-> tpos.text_x, text_y |-> tpos.text_y]
        composited == [w |-> img_width, h |-> img_height, fail |-> "none",
                       badges |-> Append(img.badges, badge)]
    IN  [image_data |-> img, points |-> points, font_scale |-> scale,
         resized |-> resized, img_width |-> img_width, img_height |-> img_height,
         requested |-> requested, font |-> font, font_size |-> font_size,
         text_len |-> StrLen(points),
         text_width |-> tsize[1], text_height |-> tsize[2],
         rect |-> rect, bg_color |-> colors.bg_color, text_color |-> colors.text_color,
         text_x |-> tpos.text_x, text_y |-> tpos.text_y,
         failed |-> failed,
         outcome |-> IF failed = "none" THEN "composited"
                     ELSE IF Caught(failed) THEN "original" ELSE "raised",
         result |-> IF failed = "none" THEN composited ELSE img]

----------------------------------------------------------------------------
(* A caller of the compositor: one call of add_points_overlay on a         *)
(* downloader instance, with any bytes, points and font_scale.             *)

NoCall == Overlay(NotAnImage, 0, One, [fonts |-> "truetype", strict |-> FALSE])

NoFile == [exists |-> FALSE, data |-> NotAnImage]

File(bytes) == [exists |-> TRUE, data |-> bytes]

NoAliasRun ==
    /\ cards_data = <<>>
    /\ alias_data = <<>>
    /\ same_dir = FALSE
    /\ disk = <<>>
    /\ apc = "off"
    /\ entry = 0
    /\ pos = 0
    /\ total_processed = 0
    /\ total_skipped = 0
    /\ total_errors = 0
    /\ log = <<>>

NoDownloadRun ==
    /\ cards = <<>>
    /\ dpc = "off"
    /\ card_index = 0
    /\ successful_downloads = 0
    /\ failed_downloads = 0
    /\ output = <<>>
    /\ handled = <<>>

Init ==
    /\ NoAliasRun
    /\ NoDownloadRun
    /\ env \in Environments
    /\ pc = "idle"
    /\ call = NoCall

AddPointsOverlay ==
    /\ pc = "idle"
    /\ apc = "off"
    /\ \E k \in 1..Len(Images), points \in PointValues, font_scale \in Scales :
          call' = Overlay(Images[k], points, font_scale, env)
    /\ pc' = "returned"
    /\ UNCHANGED <<env, aliasVars, downloadVars>>

Next == AddPointsOverlay

Spec == Init /\ [][Next]_vars

----------------------------------------------------------------------------
(* apply_alias_overlay.py: AliasOverlayProcessor.                          *)

OrigCodes == {"A", "B"}
AliasCodes == {"x", "y", "z"}

(* A code of cards.json is a JSON string or a JSON number; the keys of     *)
(* alias.json are strings.  str() of either is its text.                   *)
JsonString(text) == [json |-> "string", text |-> text]
JsonNumber(text) == [json |-> "number", text |-> text]
Str(value) == value.text

Card(code, points) == [code |-> code, has_points |-> TRUE, points |-> points]
CardNoPoints(code) == [code |-> code, has_points |-> FALSE, points |-> 0]

(* cards.json as parsed: a list of card records.                           *)
Catalogs ==
    { <<>>,
      <<Card(JsonNumber("A"), 50)>>,
      <<CardNoPoints(JsonString("A")), Card(JsonNumber("B"), 5)>>,
      <<Card(JsonNumber("A"), 5), Card(JsonString("B"), 5)>>,
      <<Card(JsonNumber("B"), 100), Card(JsonString("A"), 7), Card(JsonNumber("A"), 20)>> }

(* alias.json as parsed: original code -> alias list, in the order the     *)
(* dict is iterated.                                                       *)
AliasMappings ==
    { << <<"A", <<"x", "y">> >>, <<"B", <<"z">> >> >>,
      << <<"B", <<"y", "x">> >>, <<"A", <<"z", "x">> >> >>,
      << <<"A", <<"x", "y", "x">> >> >>,
      << <<"A", <<>> >>, <<"B", <<"z", "z">> >> >> }

CardImage == ImageBytes(316, 461, "none")
LargeImage == ImageBytes(400, 600, "none")
BrokenImage == ImageBytes(400, 600, "encode")

ImageDir(x, y, z) == [c \in AliasCodes |-> IF c = "x" THEN x ELSE IF c = "y" THEN y ELSE z]

(* The files of images_dir before the run.                                 *)
ImageDirs ==
    { ImageDir(File(CardImage), File(LargeImage), File(CardImage)),
      ImageDir(File(CardImage), NoFile, File(LargeImage)),
      ImageDir(NoFile, NoFile, NoFile),
      ImageDir(File(CardImage), File(CardImage), File(NotAnImage)),
      ImageDir(File(BrokenImage), File(CardImage), NoFile),
      ImageDir(File(LargeImage), File(CardImage), File(LargeImage)) }

(* _load_cards_data: the dict keyed by code; a later record of the same    *)
(* code replaces an earlier one.                                           *)
LoadCardsData(cards_list) ==
    LET codes == { Str(cards_list[k].code) : k \in 1..Len(cards_list) }
        last(c) == CHOOSE k \in 1..Len(cards_list) :
                      /\ Str(cards_list[k].code) = c
                      /\ \A m \in (k + 1)..Len(cards_list) : Str(cards_list[m].code) # c
    IN  [c \in codes |-> cards_list[last(c)]]

(* original_card.get('points', 0)                                          *)
GetPoints(card) == IF card.has_points THEN card.points ELSE 0

(* Mutant: the alias path calling with the default font_scale.             *)
AliasFontScale_default == One

(* font_scale=0.5 of _apply_overlay_to_image                               *)
AliasFontScale == Half

OutputDir == IF same_dir THEN "images" ELSE "output"

CurrentOriginal == alias_data[entry][1]
CurrentAliases == alias_data[entry][2]
CurrentAlias == CurrentAliases[pos]

InLoop == apc = "loop" /\ entry <= Len(alias_data)
InAliasList == InLoop /\ CurrentOriginal \in DOMAIN cards_data /\ pos <= Len(CurrentAliases)

Event(kind, existed, points, result) ==
    [entry |-> entry, pos |-> pos, alias |-> CurrentAlias, kind |-> kind,
     existed |-> existed, image_data |-> disk["images"][CurrentAlias].data,
     points |-> points, font_scale |-> AliasFontScale, result |-> result]

InitAlias ==
    /\ log = <<>>
    /\ NoDownloadRun
    /\ env \in Environments
    /\ pc = "idle"
    /\ call = NoCall
    /\ \E cards_list \in Catalogs : cards_data = LoadCardsData(cards_list)
    /\ alias_data \in AliasMappings
    /\ same_dir \in BOOLEAN
    /\ \E images \in ImageDirs :
          disk = [d \in {"images", "output"} |->
                    IF d = "images" THEN images ELSE [c \in AliasCodes |-> NoFile]]
    /\ apc = "loop"
    /\ entry = 1
    /\ pos = 1
    /\ total_processed = 0
    /\ total_skipped = 0
    /\ total_errors = 0

(* l.80-83: the original is not in cards.json; all its aliases are skipped *)
SkipOriginal ==
    /\ InLoop
    /\ CurrentOriginal \notin DOMAIN cards_data
    /\ total_skipped' = total_skipped + Len(CurrentAliases)
    /\ entry' = entry + 1
    /\ pos' = 1
    /\ UNCHANGED <<env, overlayVars, downloadVars, cards_data, alias_data, same_dir, disk, apc,
                   total_processed, total_errors, log>>

(* l.96-99: the alias has no image file                                    *)
SkipMissingImage ==
    /\ InAliasList
    /\ ~disk["images"][CurrentAlias].exists
    /\ total_skipped' = total_skipped + 1
    /\ log' = Append(log, Event("skipped", FALSE, GetPoints(cards_data[CurrentOriginal]),
                                NotAnImage))
    /\ pos' = pos + 1
    /\ UNCHANGED <<env, overlayVars, downloadVars, cards_data, alias_data, same_dir, disk, apc, entry,
                   total_processed, total_errors>>

(* l.102-106 with _apply_overlay_to_image returning True: the file is      *)
(* read, add_points_overlay is called with font_scale 0.5, its result is   *)
(* written to output_dir under the alias code.                             *)
ApplyOverlay ==
    /\ InAliasList
    /\ disk["images"][CurrentAlias].exists
    /\ LET points == GetPoints(cards_data[CurrentOriginal])
           image_data == disk["images"][CurrentAlias].data
           modified_image_data == Overlay(image_data, points, AliasFontScale, env).result
       IN  /\ disk' = [disk EXCEPT ![OutputDir][CurrentAlias] = File(modified_image_data)]
           /\ log' = Append(log, Event("processed", TRUE, points, modified_image_data))
    /\ total_processed' = total_processed + 1
    /\ pos' = pos + 1
    /\ UNCHANGED <<env, overlayVars, downloadVars, cards_data, alias_data, same_dir, apc, entry,
                   total_skipped, total_errors>>

(* l.131-134, 146-148 and 107-109: opening or reading the file raises;     *)
(* _apply_overlay_to_image returns False.                                  *)
ReadError ==
    /\ InAliasList
    /\ disk["images"][CurrentAlias].exists
    /\ log' = Append(log, Event("read_error", TRUE, GetPoints(cards_data[CurrentOriginal]),
                                NotAnImage))
    /\ total_errors' = total_errors + 1
    /\ pos' = pos + 1
    /\ UNCHANGED <<env, overlayVars, downloadVars, cards_data, alias_data, same_dir, disk, apc, entry,
                   total_processed, total_skipped>>

(* l.139-142, 146-148 and 107-109: the overlay was computed and opening    *)
(* or writing the output file raises; _apply_overlay_to_image returns      *)
(* False.                                                                  *)
WriteError ==
    /\ InAliasList
    /\ disk["images"][CurrentAlias].exists
    /\ LET points == GetPoints(cards_data[CurrentOriginal])
           image_data == disk["images"][CurrentAlias].data
           modified_image_data == Overlay(image_data, points, AliasFontScale, env).result
       IN  log' = Append(log, Event("write_error", TRUE, points, modified_image_data))
    /\ total_errors' = total_errors + 1
    /\ pos' = pos + 1
    /\ UNCHANGED <<env, overlayVars, downloadVars, cards_data, alias_data, same_dir, disk, apc, entry,
                   total_processed, total_skipped>>

(* l.92, 111: the alias list is exhausted; on to the next original         *)
NextOriginal ==
    /\ InLoop
    /\ CurrentOriginal \in DOMAIN cards_data
    /\ pos > Len(CurrentAliases)
    /\ entry' = entry + 1
    /\ pos' = 1
    /\ UNCHANGED <<env, overlayVars, downloadVars, cards_data, alias_data, same_dir, disk, apc,
                   total_processed, total_skipped, total_errors, log>>

(* l.78, 113-117: alias_data is exhausted; the summary is printed          *)
Summary ==
    /\ apc = "loop"
    /\ entry > Len(alias_data)
    /\ apc' = "done"
    /\ UNCHANGED <<env, overlayVars, downloadVars, cards_data, alias_data, same_dir, disk, entry, pos,
                   total_processed, total_skipped, total_errors, log>>

NextAlias ==
    \/ SkipOriginal
    \/ SkipMissingImage
    \/ ApplyOverlay
    \/ ReadError
    \/ WriteError
    \/ NextOriginal
    \/ Summary

SpecAlias == InitAlias /\ [][NextAlias]_vars

----------------------------------------------------------------------------
(* card_downloader.py: download_all_cards, download_card_image and         *)
(* download_image.                                                         *)

MaxCards == 3

DownloadCodes == {"A", "B"}

(* card_data.get('code') of a record without the key (or with null)        *)
NoCode == [json |-> "absent", text |-> ""]

(* "not card_code": no code, the empty string, the number 0                *)
Falsy(code) ==
    \/ code.json = "absent"
    \/ code.text = ""
    \/ code.json = "number" /\ code.text = "0"

DownloadRecords ==
    { CardNoPoints(NoCode),
      Card(JsonString(""), 5),
      Card(JsonNumber("A"), 75),
      CardNoPoints(JsonString("B")) }

(* cards.json as parsed: any list of at most MaxCards of these records     *)
DownloadCatalogs == UNION { [1..n -> DownloadRecords] : n \in 0..MaxCards }

(* response.content of a fetch that succeeded                              *)
ResponseBodies == {CardImage, LargeImage, NotAnImage}

(* add_points_overlay(response.content, points): font_scale is the default *)
DownloadFontScale == One

CurrentCard == cards[card_index]

InDownloadLoop == dpc = "loop" /\ card_index <= Len(cards)

Handled(outcome, image_data, result) ==
    [index |-> card_index, code |-> CurrentCard.code, outcome |-> outcome,
     points |-> GetPoints(CurrentCard), image_data |-> image_data, result |-> result]

InitDownload ==
    /\ NoAliasRun
    /\ env \in Environments
    /\ pc = "idle"
    /\ call = NoCall
    /\ cards \in DownloadCatalogs
    /\ dpc = "start"
    /\ card_index = 0
    /\ successful_downloads = 0
    /\ failed_downloads = 0
    /\ output = [c \in DownloadCodes |-> NoFile]
    /\ handled = <<>>

(* l.282-291: cards.json is parsed; the counters start at 0                *)
LoadCards ==
    /\ dpc = "start"
    /\ dpc' = "loop"
    /\ card_index' = 1
    /\ successful_downloads' = 0
    /\ failed_downloads' = 0
    /\ UNCHANGED <<env, overlayVars, aliasVars, cards, output, handled>>

(* l.282-286: the file is missing or is not JSON; the run returns          *)
LoadError ==
    /\ dpc = "start"
    /\ dpc' = "aborted"
    /\ UNCHANGED <<env, overlayVars, aliasVars, cards, card_index, successful_downloads,
                   failed_downloads, output, handled>>

(* l.295-300: the record has no code; it is counted as failed              *)
MissingCode ==
    /\ InDownloadLoop
    /\ Falsy(CurrentCard.code)
    /\ failed_downloads' = failed_downloads + 1
    /\ handled' = Append(handled, Handled("no_code", NotAnImage, NotAnImage))
    /\ card_index' = card_index + 1
    /\ UNCHANGED <<env, overlayVars, aliasVars, cards, dpc, successful_downloads, output>>

(* Mutant: a fetch error that ends the run.                                *)
FetchError_abort ==
    /\ InDownloadLoop
    /\ ~Falsy(CurrentCard.code)
    /\ failed_downloads' = failed_downloads + 1
    /\ handled' = Append(handled, Handled("fetch_error", NotAnImage, NotAnImage))
    /\ card_index' = card_index + 1
    /\ dpc' = "done"
    /\ UNCHANGED <<env, overlayVars, aliasVars, cards, successful_downloads, output>>

(* l.226-227, 238-240, 268-271, 307-312: the GET or raise_for_status       *)
(* raises a RequestException; download_image returns False                 *)
FetchError ==
    /\ InDownloadLoop
    /\ ~Falsy(CurrentCard.code)
    /\ failed_downloads' = failed_downloads + 1
    /\ handled' = Append(handled, Handled("fetch_error", NotAnImage, NotAnImage))
    /\ card_index' = card_index + 1
    /\ UNCHANGED <<env, overlayVars, aliasVars, cards, dpc, successful_downloads, output>>

(* l.226-236, 241-243, 268-271, 307-312: the image was fetched and the     *)
(* overlay computed; opening or writing the file raises IOError, which     *)
(* leaves the file as it was or truncated; download_image returns False    *)
SaveError ==
    /\ InDownloadLoop
    /\ ~Falsy(CurrentCard.code)
    /\ \E image_data \in ResponseBodies :
          LET modified_image_data ==
                  Overlay(image_data, GetPoints(CurrentCard), DownloadFontScale, env).result
          IN  handled' = Append(handled, Handled("save_error", image_data,
                                                 modified_image_data))
    /\ \/ output' = output
       \/ output' = [output EXCEPT ![Str(CurrentCard.code)] = File(NotAnImage)]
    /\ failed_downloads' = failed_downloads + 1
    /\ card_index' = card_index + 1
    /\ UNCHANGED <<env, overlayVars, aliasVars, cards, dpc, successful_downloads>>

(* l.226-236, 264-267, 304-305, 310-312: the image is fetched, the overlay *)
(* (composited or failed open) is written to <code>.jpg; the record is     *)
(* counted as downloaded.  The sleep between records changes no state.     *)
Downloaded ==
    /\ InDownloadLoop
    /\ ~Falsy(CurrentCard.code)
    /\ \E image_data \in ResponseBodies :
          LET modified_image_data ==
                  Overlay(image_data, GetPoints(CurrentCard), DownloadFontScale, env).result
          IN  /\ output' = [output EXCEPT ![Str(CurrentCard.code)] =
                                              File(modified_image_data)]
              /\ handled' = Append(handled, Handled("downloaded", image_data,
                                                    modified_image_data))
    /\ successful_downloads' = successful_downloads + 1
    /\ card_index' = card_index + 1
    /\ UNCHANGED <<env, overlayVars, aliasVars, cards, dpc, failed_downloads>>

(* l.295, 314-318: the list is exhausted; the summary is printed           *)
DownloadSummary ==
    /\ dpc = "loop"
    /\ card_index > Len(cards)
    /\ dpc' = "done"
    /\ UNCHANGED <<env, overlayVars, aliasVars, cards, card_index, successful_downloads,
                   failed_downloads, output, handled>>

NextDownload ==
    \/ LoadCards
    \/ LoadError
    \/ MissingCode
    \/ FetchError
    \/ SaveError
    \/ Downloaded
    \/ DownloadSummary

SpecDownload == InitDownload /\ [][NextDownload]_vars

----------------------------------------------------------------------------
(* Properties of one call.                                                 *)

Returned == pc = "returned"

Decodable == call.image_data.fail # "decode"

(* C1: add_points_overlay is fail-open.  A call ends in one of two ways,   *)
(* composited bytes or the original bytes, never with an exception at the  *)
(* caller; and whenever a statement of the try block fails the value       *)
(* returned is the input bytes, unchanged.                                 *)
C1_FailOpen ==
    Returned =>
        /\ call.outcome \in {"composited", "original"}
        /\ (call.failed # "none" =>
                call.outcome = "original" /\ call.result = call.image_data)
        /\ (call.outcome = "original" => call.result = call.image_data)

(* A sound image whose encoding fails comes back as it went in.            *)
C1_Witness ==
    /\ Returned
    /\ call.failed = "encode"
    /\ call.outcome = "original"
    /\ call.result = call.image_data

(* C2: the badge colours follow a ladder checked from the top: points >=   *)
(* 50 red with white text, 20..49 orange, 10..19 yellow, below 10 (and     *)
(* every negative value) green, the last three with black text; 10, 20 and *)
(* 50 fall into the higher bucket.                                         *)
C2_ColorLadder ==
    (Returned /\ Passed(call.failed, "measure")) =>
        LET p == call.points
            rgb == SubSeq(call.bg_color, 1, 3)
        IN  /\ (p >= 50 => rgb = <<255, 0, 0>> /\ call.text_color = <<255, 255, 255>>)
            /\ (p >= 20 /\ p < 50 => rgb = <<255, 165, 0>> /\ call.text_color = <<0, 0, 0>>)
            /\ (p >= 10 /\ p < 20 => rgb = <<255, 255, 0>> /\ call.text_color = <<0, 0, 0>>)
            /\ (p < 10 => rgb = <<0, 255, 0>> /\ call.text_color = <<0, 0, 0>>)
            /\ (p = 5 => rgb = <<0, 255, 0>>)
            /\ (p = 10 => rgb = <<255, 255, 0>>)
            /\ (p = 20 => rgb = <<255, 165, 0>>)
            /\ (p \in {50, 100} => rgb = <<255, 0, 0>>)

(* The boundary value 50 is drawn red on a composited image.               *)
C2_Witness ==
    /\ Returned
    /\ call.outcome = "composited"
    /\ call.points = 50
    /\ call.bg_color = <<255, 0, 0, 200>>

Oversize == call.image_data.w > 316 \/ call.image_data.h > 461

(* The working size w x h is the input's size scaled to touch the cap on   *)
(* one axis, the other axis within one pixel of the exact scaled value.    *)
SameAspect(w, h) ==
    LET iw == call.image_data.w
        ih == call.image_data.h
    IN  \/ h = 461 /\ Abs(w * ih - 461 * iw) < ih
        \/ w = 316 /\ Abs(h * iw - 316 * ih) < iw

(* C3 as stated: every image larger than 316 x 461 on an axis yields an    *)
(* output of width <= 316 and height <= 461 with the input's aspect ratio  *)
(* within rounding.                                                        *)
C3_OutputCapped ==
    (Returned /\ Decodable /\ Oversize) =>
        /\ call.result.w <= 316
        /\ call.result.h <= 461
        /\ SameAspect(call.result.w, call.result.h)

(* C3 amended: for every image larger than 316 x 461 on an axis the        *)
(* working image, once resized, has width <= 316 and height <= 461 and the *)
(* input's aspect ratio within rounding; so has the output whenever the    *)
(* call returns composited bytes (a call that fails after the resize       *)
(* returns the original, oversize bytes).                                  *)
C3_WorkingCapped ==
    (Returned /\ Decodable /\ Oversize) =>
        /\ (Passed(call.failed, "resize") =>
                /\ call.resized
                /\ call.img_width <= 316
                /\ call.img_height <= 461
                /\ SameAspect(call.img_width, call.img_height))
        /\ (call.outcome = "composited" =>
                /\ call.result.w <= 316
                /\ call.result.h <= 461
                /\ SameAspect(call.result.w, call.result.h))
        /\ (call.outcome = "original" => call.result = call.image_data)

(* The 400 x 600 image with 75 points comes out 307 x 461.                 *)
C3_Witness ==
    /\ Returned
    /\ call.image_data.w = 400 /\ call.image_data.h = 600
    /\ call.points = 75
    /\ call.outcome = "composited"
    /\ call.result.w = 307 /\ call.result.h = 461

(* C4: an image of width <= 316 and height <= 461 is not resized and the   *)
(* output has exactly its width and height; no image is ever enlarged.     *)
C4_NoUpscale ==
    (Returned /\ Decodable) =>
        /\ ((call.image_data.w <= 316 /\ call.image_data.h <= 461) =>
                /\ ~call.resized
                /\ (Passed(call.failed, "resize") =>
                        /\ call.img_width = call.image_data.w
                        /\ call.img_height = call.image_data.h)
                /\ call.result.w = call.image_data.w
                /\ call.result.h = call.image_data.h)
        /\ call.result.w <= call.image_data.w
        /\ call.result.h <= call.image_data.h

(* The 200 x 200 image with 3 points stays 200 x 200 and is badged.        *)
C4_Witness ==
    /\ Returned
    /\ call.image_data.w = 200 /\ call.image_data.h = 200
    /\ call.points = 3
    /\ call.outcome = "composited"
    /\ ~call.resized
    /\ call.result.w = 200 /\ call.result.h = 200

(* C5: the font size asked of get_font is                                  *)
(* trunc(max(floor(min(width, height) / 4), 80) * font_scale) of the       *)
(* working size; and for the same image the size asked for with            *)
(* font_scale 0.5 is the floor of half the size asked for with 1.0, and    *)
(* strictly smaller.                                                       *)
C5_FontSize ==
    (Returned /\ Passed(call.failed, "context")) =>
        LET m == IF call.img_width <= call.img_height
                 THEN call.img_width ELSE call.img_height
            floored == IF m \div 4 >= 80 THEN m \div 4 ELSE 80
            num == call.font_scale[1]
            den == call.font_scale[2]
            scaled == floored * num
            at_half == Overlay(call.image_data, call.points, <<1, 2>>, env).requested
            at_one == Overlay(call.image_data, call.points, <<1, 1>>, env).requested
        IN  /\ call.requested =
                  IF scaled >= 0 THEN scaled \div den ELSE 0 - ((0 - scaled) \div den)
            /\ at_half = at_one \div 2
            /\ at_half < at_one

(* The alias path's scale on a card-sized image: 40 instead of 80.         *)
C5_Witness ==
    /\ Returned
    /\ call.font_scale = <<1, 2>>
    /\ call.image_data.w = 316 /\ call.image_data.h = 461
    /\ call.outcome = "composited"
    /\ call.requested = 40

(* C6: for every image size and text size the clamped badge rectangle has  *)
(* no negative coordinate and x1 <= width, x2 <= width, y1 <= height,      *)
(* y2 <= height.                                                           *)
C6_RectInsideImage ==
    (Returned /\ Passed(call.failed, "measure")) =>
        /\ call.rect.x1 >= 0 /\ call.rect.y1 >= 0
        /\ call.rect.x2 >= 0 /\ call.rect.y2 >= 0
        /\ call.rect.x1 <= call.img_width /\ call.rect.x2 <= call.img_width
        /\ call.rect.y1 <= call.img_height /\ call.rect.y2 <= call.img_height

TextFitsX == call.rect.x2 - call.rect.x1 - call.text_width >= 3
TextFitsY == call.rect.y2 - call.rect.y1 - call.text_height >= 3

DrawnAt ==
    /\ call.text_x =
          LET c == call.rect.x1 + (call.rect.x2 - call.rect.x1 - call.text_width) \div 2
          IN  IF c >= call.rect.x1 + 2 THEN c ELSE call.rect.x1 + 2
    /\ call.text_y =
          LET c == call.rect.y1 + (call.rect.y2 - call.rect.y1 - call.text_height) \div 2
          IN  IF c >= call.rect.y1 + 2 THEN c ELSE call.rect.y1 + 2
    /\ call.text_x >= call.rect.x1 + 2
    /\ call.text_y >= call.rect.y1 + 2

CenteredX ==
    /\ call.text_x >= call.rect.x1
    /\ call.text_x + call.text_width <= call.rect.x2
    /\ Abs((call.text_x - call.rect.x1)
           - (call.rect.x2 - call.text_x - call.text_width)) <= 1

CenteredY ==
    /\ call.text_y >= call.rect.y1
    /\ call.text_y + call.text_height <= call.rect.y2
    /\ Abs((call.text_y - call.rect.y1)
           - (call.rect.y2 - call.text_y - call.text_height)) <= 1

NoFontFile == env.fonts # "truetype"

(* C8 as stated: whenever no font file of font_paths can be loaded the     *)
(* compositor goes on with no font object and font size 60, estimates the  *)
(* text as trunc(len * 60 * 0.6) wide and trunc(60 * 1.1) high, and still  *)
(* returns composited bytes.                                               *)
C8_NoFontWithoutFiles ==
    (Returned /\ NoFontFile /\ Passed(call.failed, "font")) =>
        /\ call.font = "none"
        /\ call.font_size = 60
        /\ call.text_width = call.text_len * 36
        /\ call.text_height = 66
        /\ (call.image_data.fail = "none" /\ ~Inverted(call.rect) =>
                call.outcome = "composited")

(* C8 amended: font unavailability is no error of get_font.  When no font  *)
(* file of font_paths can be loaded get_font returns the library's         *)
(* built-in default font: the text is measured with it, its height         *)
(* inflated by 20%, and the font size stays the computed one.  Only when   *)
(* the built-in font cannot be loaded either does the compositor go on     *)
(* with no font object and font size 60, the text estimated as             *)
(* trunc(len * 60 * 0.6) wide and trunc(60 * 1.1) high with no inflation.  *)
(* With a measurable built-in font a sound image with a well-formed        *)
(* rectangle comes back composited.                                        *)
C8_FontFallback ==
    (Returned /\ NoFontFile /\ Passed(call.failed, "font")) =>
        /\ (env.fonts \in {"default", "bitmap"} =>
                /\ call.font = env.fonts
                /\ call.font_size = call.requested)
        /\ (env.fonts = "default" =>
                /\ call.text_height =
                      (TextBBox("default", call.requested, call.text_len)[2] * 12) \div 10
                /\ call.text_width = TextBBox("default", call.requested, call.text_len)[1]
                /\ (call.image_data.fail = "none" /\ ~Inverted(call.rect) =>
                        call.outcome = "composited"))
        /\ (env.fonts = "absent" =>
                /\ call.font = "none"
                /\ call.font_size = 60
                /\ call.text_width = call.text_len * 36
                /\ call.text_height = 66)

(* Both fallbacks happen: a call measured with the built-in font that      *)
(* returns composited bytes...                                             *)
C8_Witness ==
    /\ Returned
    /\ env.fonts = "default"
    /\ call.font = "default"
    /\ call.points = 100
    /\ call.outcome = "composited"

----------------------------------------------------------------------------
(* Properties of a run of process_all_aliases.                             *)

(* The events in which add_points_overlay was called.                      *)
OverlayCalls == { k \in DOMAIN log : log[k].kind \in {"processed", "write_error"} }

SameInput(a, b) ==
    /\ log[a].image_data = log[b].image_data
    /\ log[a].points = log[b].points
    /\ log[a].font_scale = log[b].font_scale

EventsOf(i) == SelectSeq(log, LAMBDA e : e.entry = i)

Present(i) == alias_data[i][1] \in DOMAIN cards_data

RECURSIVE AliasesOfAbsent(_)
AliasesOfAbsent(i) ==
    IF i = 0 THEN 0
    ELSE AliasesOfAbsent(i - 1) + (IF Present(i) THEN 0 ELSE Len(alias_data[i][2]))

CountKind(kinds) == Cardinality({ k \in DOMAIN log : log[k].kind \in kinds })

(* The events are in the order of alias_data and, within an original, of   *)
(* its alias list.                                                         *)
InListOrder ==
    \A a \in DOMAIN log, b \in DOMAIN log :
        a < b => \/ log[a].entry < log[b].entry
                 \/ log[a].entry = log[b].entry /\ log[a].pos < log[b].pos

(* The call made for the m-th alias of the i-th original: the original's   *)
(* points (0 without a points field) and font_scale 0.5.                   *)
CalledAsClaimed(i, e) ==
    LET card == cards_data[alias_data[i][1]]
    IN  /\ e.points = (IF card.has_points THEN card.points ELSE 0)
        /\ e.font_scale = <<1, 2>>

(* What was processed last is on disk under its alias code.                *)
LastWritten ==
    (log # <<>> /\ log[Len(log)].kind = "processed") =>
        disk[OutputDir][log[Len(log)].alias] = File(log[Len(log)].result)

(* Only processed aliases have a file in a separate output directory.      *)
OnlyProcessedWritten ==
    ~same_dir =>
        \A c \in AliasCodes :
            disk["output"][c].exists =>
                \E k \in DOMAIN log : log[k].kind = "processed" /\ log[k].alias = c

(* Every original of alias_data is handled: one event per alias of a       *)
(* present original, none for an absent one, whose aliases are counted as  *)
(* skipped.                                                                *)
AllHandled(onExisting) ==
    /\ \A i \in 1..Len(alias_data) :
          LET ev == EventsOf(i)
              aliases == alias_data[i][2]
          IN  IF Present(i)
              THEN /\ Len(ev) = Len(aliases)
                   /\ \A m \in 1..Len(ev) :
                         /\ ev[m].pos = m
                         /\ ev[m].alias = aliases[m]
                         /\ (~ev[m].existed => ev[m].kind = "skipped")
                         /\ (ev[m].existed => ev[m].kind \in onExisting)
                         /\ (ev[m].kind \in {"processed", "write_error"} =>
                                 CalledAsClaimed(i, ev[m]))
              ELSE ev = <<>>
    /\ total_skipped = CountKind({"skipped"}) + AliasesOfAbsent(Len(alias_data))

----------------------------------------------------------------------------
(* Properties of a run of download_all_cards.                              *)

HandledAs(outcomes) ==
    Cardinality({ k \in DOMAIN handled : handled[k].outcome \in outcomes })

(* The records handled so far are the first records of the catalog, each   *)
(* once, in catalog order.                                                 *)
InCatalogOrder ==
    /\ Len(handled) = card_index - 1
    /\ Len(handled) <= Len(cards)
    /\ \A k \in DOMAIN handled :
          /\ handled[k].index = k
          /\ handled[k].code = cards[k].code
          /\ handled[k].outcome = "no_code" <=> Falsy(cards[k].code)

(* C11: in download_all_cards the records are handled once each, one at a  *)
(* time in catalog order; a record without code, a fetch error, a save     *)
(* error or an overlay that failed open does not stop the run, which goes  *)
(* on with the next record until the list is exhausted;                    *)
(* successful_downloads counts the records downloaded, failed_downloads    *)
(* the others, their sum is the number of records handled so far and, at   *)
(* the summary, the number of records of the catalog.                      *)
C11_EveryRecordCounted ==
    dpc \in {"loop", "done"} =>
        /\ InCatalogOrder
        /\ successful_downloads = HandledAs({"downloaded"})
        /\ failed_downloads = HandledAs({"no_code", "fetch_error", "save_error"})
        /\ successful_downloads + failed_downloads = Len(handled)
        /\ (dpc = "loop" => ENABLED NextDownload)
        /\ (dpc = "done" =>
               /\ Len(handled) = Len(cards)
               /\ successful_downloads + failed_downloads = Len(cards))

(* A finished run over three records: the first failed to be saved, the    *)
(* second was downloaded with an overlay that failed open, the third was   *)
(* downloaded and badged.                                                  *)
C11_Witness ==
    /\ dpc = "done"
    /\ Len(cards) = 3
    /\ handled[1].outcome = "save_error"
    /\ handled[2].outcome = "downloaded"
    /\ handled[2].result = handled[2].image_data
    /\ handled[3].outcome = "downloaded"
    /\ handled[3].result # handled[3].image_data
    /\ output[Str(handled[3].code)] = File(handled[3].result)
    /\ successful_downloads = 2
    /\ failed_downloads = 1

----------------------------------------------------------------------------
(* Properties of the font size of one call.                                *)

====
